---- MODULE Spec2Model ----
(***************************************************************************)
(* Model of the authenticated async job layer of model_harness             *)
(* (src/src/inference_handler.py): POST /auth/generate, the circuit        *)
(* breaker around the SageMaker invocation, and GET /auth/status/{job_id}. *)
(***************************************************************************)
EXTENDS Integers, Naturals, Sequences, FiniteSets, TLC

VARIABLES
    HAS_BOTO3,      \* module flag set at import time
    now,            \* wall clock, seconds
    cb,             \* sagemaker_circuit_breaker: state, failure count, last failure time
    pc,             \* per request slot: "idle" or "inflight" (backend call outstanding)
    req,            \* per request slot: the submit request being served
    resp,           \* the last response POST /auth/generate sent to a client
    next_job,       \* number of job ids handed out so far
    s3_inputs,      \* keys written under inputs/
    backend_calls,  \* invoke_endpoint_async calls made so far
    fail_streak,    \* invoke_endpoint_async calls that raised since the last one that returned
    s3_outputs,     \* keys present under outputs/
    s3_failures,    \* keys present under failures/ with their content
    status_resp,    \* the response GET /auth/status last sent, with its request;
                    \* NoStatus once the store has been written to since
    polled,         \* per job id: the furthest status a request that met no
                    \* storage error has reported so far
    tokens,         \* bearer tokens POST /auth/token has issued
    areq,           \* per request slot: how far the request is through the
                    \* dependency (authentication, rate limit) and its handler
    rl,             \* the rate limiter's counter store: per user, window start and count
    rl_calls,       \* per user: check_and_increment calls made in the current window
    requests        \* requests that have reached get_current_user so far

vars == << HAS_BOTO3, now, cb, pc, req, resp, next_job, s3_inputs, backend_calls,
           fail_streak, s3_outputs, s3_failures, status_resp, polled,
           tokens, areq, rl, rl_calls, requests >>

submitVars == << now, cb, pc, req, resp, next_job, s3_inputs, backend_calls,
                 fail_streak >>
statusVars == << s3_outputs, s3_failures, status_resp, polled >>
authVars == << tokens, areq, rl, rl_calls, requests >>

----------------------------------------------------------------------------
(* Bounds of the model.                                                    *)

\* Number of input objects written in one behaviour.
MaxJobs == 8

\* Last clock reading of one behaviour, seconds.
MaxTime == 122

\* Number of objects of other jobs under one prefix of the store.
MaxOther == 100

----------------------------------------------------------------------------
(* Program constants.                                                      *)

failure_threshold == 5

reset_timeout == 60

MaxPromptLen == 1000

\* MaxKeys of both list_objects_v2 calls of get_job_status.
MaxKeys == 100

\* error_content[:500]
MaxErrorLen == 500

----------------------------------------------------------------------------
(* Requests.                                                               *)

\* Requests served at the same time.
Slots == {"r1", "r2", "r3"}

\* current_user["user_id"] of the request in slot s.
UserOf(s) == "alice"

\* A prompt is a string written as runs of equal characters.
Run(ch, n) == [ch |-> ch, n |-> n]

RECURSIVE PromptLen(_)
PromptLen(p) == IF p = << >> THEN 0 ELSE Head(p).n + PromptLen(Tail(p))

IsSpaceRun(r) == r.ch = " " \/ r.n = 0

\* str.strip(): drop leading and trailing whitespace.
RECURSIVE LStrip(_)
LStrip(p) == IF p = << >> THEN p
             ELSE IF IsSpaceRun(Head(p)) THEN LStrip(Tail(p)) ELSE p

RECURSIVE RStrip(_)
RStrip(p) == IF p = << >> THEN p
             ELSE IF IsSpaceRun(p[Len(p)]) THEN RStrip(SubSeq(p, 1, Len(p) - 1)) ELSE p

Strip(p) == RStrip(LStrip(p))

Prompts == { << >>,
             << Run(" ", 3) >>,
             << Run("a", 1000) >>,
             << Run("a", 1001) >>,
             << Run(" ", 2), Run("a", 999) >> }

\* The first of the two checks at the head of authenticated_async_generate.
PromptEmpty(p) == PromptLen(p) = 0 \/ PromptLen(Strip(p)) = 0

\* The length check with >= for >.
PromptTooLongInclusive(p) == PromptLen(p) >= MaxPromptLen

\* The second check: len(request.prompt) > 1000.
PromptTooLong(p) == PromptLen(p) > MaxPromptLen

InputKey(user, job) == << "inputs", user, job >>

NoResp == [kind |-> "none"]

\* An exception's message is made of text written in the handler and of
\* str(e), the text of the exception e it was made from.
Literal(text) == [from |-> "literal", text |-> text]

ExcText(e) == [from |-> "exception", text |-> e]

\* The message of the exception that ends authenticated_async_generate.
SubmitMessage(cause) ==
    IF cause = "empty" THEN << Literal("Prompt cannot be empty") >>
    ELSE IF cause = "too_long" THEN << Literal("Prompt too long (max 1000 characters)") >>
    ELSE IF cause = "backend"
    THEN << Literal("Failed to start image generation: "),
            Literal("SageMaker invocation failed: "), ExcText(cause) >>
    ELSE << Literal("Failed to start image generation: "), ExcText(cause) >>

\* The message of the exception that ends get_job_status.
StatusMessage(cause) == << Literal("Failed to get job status: "), ExcText(cause) >>

NoReq == [job_id |-> 0]

----------------------------------------------------------------------------
(* CircuitBreaker(failure_threshold=5, reset_timeout=60): the class lives  *)
(* in src/errors.py; its state machine is the one of the design document.  *)

CB_Init == [state |-> "closed", failure_count |-> 0, last_failure_time |-> 0]

CB_Elapsed(b, t) == t - b.last_failure_time >= reset_timeout

\* Whether a call arriving at time t is let through to the wrapped function.
CB_Allows(b, t) ==
    \/ b.state = "closed"
    \/ b.state = "open" /\ CB_Elapsed(b, t)

\* How a call let through was admitted: as an ordinary call or as the half-open trial.
CB_Mode(b) == IF b.state = "closed" THEN "closed" ELSE "trial"

\* The breaker after letting a call through at time t.
CB_Enter(b, t) ==
    IF b.state = "open" /\ CB_Elapsed(b, t)
    THEN [b EXCEPT !.state = "half_open"]
    ELSE b

\* The breaker after a call admitted in `mode` returned normally.
CB_OnSuccess(b, mode) ==
    IF mode = "trial"
    THEN [b EXCEPT !.state = "closed", !.failure_count = 0]
    ELSE IF b.state = "closed"
         THEN [b EXCEPT !.failure_count = 0]
         ELSE b

\* The breaker after a call admitted in `mode` raised at time t.
CB_OnFailure(b, mode, t) ==
    IF mode = "trial"
    THEN [b EXCEPT !.state = "open", !.last_failure_time = t]
    ELSE IF b.state = "closed"
         THEN IF b.failure_count + 1 >= failure_threshold
              THEN [state |-> "open", failure_count |-> b.failure_count + 1,
                    last_failure_time |-> t]
              ELSE [b EXCEPT !.failure_count = b.failure_count + 1]
         ELSE b

----------------------------------------------------------------------------
(* POST /auth/generate                                                     *)

\* The function called without its decorator: nothing turns a call away.
GuardedUnwrapped(b, t) == TRUE

\* @sagemaker_circuit_breaker on _invoke_sagemaker_async: every call of the
\* function goes through the breaker.

Guarded(b, t) == CB_Allows(b, t)

\* An except clause that logs and does not re-raise: the breaker sees a return.
InvokeSwallowing(ok) == "return"

\* _invoke_sagemaker_async: what the wrapped function hands to the breaker
\* when invoke_endpoint_async returns (ok) or raises.

InvokeSagemakerAsync(ok) == IF ok THEN "return" ELSE "raise"

\* The handler with the prompt checks placed after the upload.
SubmitPathLateValidation(p, hasBoto, putOk, allowed) ==
    IF ~hasBoto
    THEN [end |-> "InferenceError", cause |-> "no_boto3", wrote |-> FALSE]
    ELSE IF ~putOk
    THEN [end |-> "InferenceError", cause |-> "put_object", wrote |-> FALSE]
    ELSE IF PromptEmpty(p) \/ PromptTooLong(p)
    THEN [end |-> "ValidationError", cause |-> "prompt", wrote |-> TRUE]
    ELSE IF ~allowed
    THEN [end |-> "InferenceError", cause |-> "breaker_open", wrote |-> TRUE]
    ELSE [end |-> "invoke", cause |-> "none", wrote |-> TRUE]

\* The handler going on to the backend although put_object raised.
SubmitPathIgnoringPut(p, hasBoto, putOk, allowed) ==
    IF PromptEmpty(p)
    THEN [end |-> "ValidationError", cause |-> "empty", wrote |-> FALSE]
    ELSE IF PromptTooLong(p)
    THEN [end |-> "ValidationError", cause |-> "too_long", wrote |-> FALSE]
    ELSE IF ~hasBoto
    THEN [end |-> "InferenceError", cause |-> "no_boto3", wrote |-> FALSE]
    ELSE IF ~allowed
    THEN [end |-> "InferenceError", cause |-> "breaker_open", wrote |-> putOk]
    ELSE [end |-> "invoke", cause |-> "none", wrote |-> putOk]

\* The path authenticated_async_generate takes up to the backend call:
\* which exception ends it, if any, and whether put_object was done.
\* Every exception but ValidationAPIError leaves as InferenceAPIError.
SubmitPath(p, hasBoto, putOk, allowed) ==
    IF PromptEmpty(p)
    THEN [end |-> "ValidationError", cause |-> "empty", wrote |-> FALSE]
    ELSE IF PromptTooLong(p)
    THEN [end |-> "ValidationError", cause |-> "too_long", wrote |-> FALSE]
    ELSE IF ~hasBoto
    THEN [end |-> "InferenceError", cause |-> "no_boto3", wrote |-> FALSE]
    ELSE IF ~putOk
    THEN [end |-> "InferenceError", cause |-> "put_object", wrote |-> FALSE]
    ELSE IF ~allowed
    THEN [end |-> "InferenceError", cause |-> "breaker_open", wrote |-> TRUE]
    ELSE [end |-> "invoke", cause |-> "none", wrote |-> TRUE]

\* A request arrives in slot s with prompt p; put_object succeeds iff putOk.
\* The handler runs up to the backend call, or to the exception that ends it.
\* job_id stands for the uuid4 of the request; an id is counted as used
\* once an object has been written under it.
SubmitAs(s, user, p, putOk) ==
    /\ pc[s] = "idle"
    /\ next_job < MaxJobs
    /\ LET job_id == next_job + 1
           key == InputKey(user, job_id)
           path == SubmitPath(p, HAS_BOTO3, putOk, Guarded(cb, now))
       IN /\ s3_inputs' = IF path.wrote THEN s3_inputs \cup {key} ELSE s3_inputs
          /\ next_job' = IF path.wrote THEN job_id ELSE next_job
          /\ IF path.end = "invoke"
             THEN /\ cb' = CB_Enter(cb, now)
                  /\ backend_calls' = backend_calls + 1
                  /\ pc' = [pc EXCEPT ![s] = "inflight"]
                  /\ req' = [req EXCEPT ![s] = [job_id |-> job_id, user |-> user,
                                                key |-> key, prompt |-> p,
                                                mode |-> CB_Mode(cb)]]
                  /\ UNCHANGED resp
             ELSE /\ resp' = [kind |-> path.end, cause |-> path.cause, prompt |-> p,
                               message |-> SubmitMessage(path.cause)]
                  /\ UNCHANGED << cb, backend_calls, pc, req >>
    /\ UNCHANGED << HAS_BOTO3, now, fail_streak, statusVars >>

Submit(s, p, putOk) == SubmitAs(s, UserOf(s), p, putOk) /\ UNCHANGED authVars

\* invoke_endpoint_async of slot s returns (ok) or raises; the breaker
\* records the outcome and the handler answers the client.
Returns(s, ok) ==
    /\ pc[s] = "inflight"
    /\ LET outcome == InvokeSagemakerAsync(ok)
       IN /\ cb' = IF outcome = "return"
                   THEN CB_OnSuccess(cb, req[s].mode)
                   ELSE CB_OnFailure(cb, req[s].mode, now)
          /\ resp' = IF ok
                     THEN [kind |-> "ok", job_id |-> req[s].job_id,
                           status_url |-> << "auth", "status", req[s].job_id >>,
                           user_id |-> req[s].user]
                     ELSE [kind |-> "InferenceError", cause |-> "backend",
                           message |-> SubmitMessage("backend")]
    /\ fail_streak' = IF ok THEN 0 ELSE fail_streak + 1
    /\ pc' = [pc EXCEPT ![s] = "idle"]
    /\ req' = [req EXCEPT ![s] = NoReq]
    /\ UNCHANGED << HAS_BOTO3, now, next_job, s3_inputs, backend_calls, statusVars >>

Complete(s, ok) == Returns(s, ok) /\ UNCHANGED authVars

TickSteps == {59, 60}

Tick(d) ==
    /\ now + d <= MaxTime
    /\ now' = now + d
    /\ UNCHANGED << HAS_BOTO3, cb, pc, req, resp, next_job, s3_inputs, backend_calls,
                    fail_streak, statusVars, authVars >>

----------------------------------------------------------------------------
(* The object store under outputs/ and failures/.  A prefix is the list of *)
(* its objects in key order, the order list_objects_v2 returns them in.    *)
(* Keys and job ids are strings, written as sequences of character codes.  *)
(* An entry [key, n] of the list stands for n objects that follow one      *)
(* another in key order, their keys being `key` and a serial number        *)
(* written in characters no job id is made of; n = 1 for a job's object.   *)

None == << >>

Some(x) == << x >>

RECURSIVE LexLess(_, _)
LexLess(a, b) ==
    IF b = << >> THEN FALSE
    ELSE IF a = << >> THEN TRUE
    ELSE IF Head(a) # Head(b) THEN Head(a) < Head(b)
    ELSE LexLess(Tail(a), Tail(b))

\* Python's `job_id in key` on strings.
Contains(job_id, key) ==
    \E i \in 0 .. (Len(key) - Len(job_id)) : SubSeq(key, i + 1, i + Len(job_id)) = job_id

HasKey(objs, k) == \E i \in 1 .. Len(objs) : objs[i].key = k

RECURSIVE NumObjects(_)
NumObjects(objs) == IF objs = << >> THEN 0 ELSE Head(objs).n + NumObjects(Tail(objs))

\* put_object: the prefix after writing entry o (an overwrite if its key is there).
Put(objs, o) ==
    LET kept == SelectSeq(objs, LAMBDA x : x.key # o.key)
        n == Cardinality({i \in 1 .. Len(kept) : LexLess(kept[i].key, o.key)})
    IN SubSeq(kept, 1, n) \o << o >> \o SubSeq(kept, n + 1, Len(kept))

\* The first m objects of a prefix.
RECURSIVE Take(_, _)
Take(objs, m) ==
    IF objs = << >> \/ m <= 0 THEN << >>
    ELSE IF Head(objs).n >= m THEN << [Head(objs) EXCEPT !.n = m] >>
    ELSE << Head(objs) >> \o Take(Tail(objs), m - Head(objs).n)

\* list_objects_v2(Prefix=..., MaxKeys=100)['Contents']: the first page only.
ListObjects(objs) == Take(objs, MaxKeys)

\* generate_presigned_url('get_object', Key=key, ExpiresIn=3600)
PresignedUrl(key) == << "https", key, 3600 >>

LastModified(key) == << "modified", key >>

\* text[:m] of a text written as runs of equal characters.
RECURSIVE Prefix(_, _)
Prefix(text, m) ==
    IF text = << >> \/ m <= 0 THEN << >>
    ELSE IF Head(text).n >= m THEN << Run(Head(text).ch, m) >>
    ELSE << Head(text) >> \o Prefix(Tail(text), m - Head(text).n)

\* error_content[:500]
Truncate(content) == Prefix(content, MaxErrorLen)

\* The objects of a listing whose key contains job_id, in listing order.
Matching(listing, job_id) == SelectSeq(listing, LAMBDA o : Contains(job_id, o.key))

JobStatus(job_id, status, created_at, completed_at, output_url, error_message, user_id) ==
    [kind |-> "JobStatus", job_id |-> job_id, status |-> status, created_at |-> created_at,
     completed_at |-> completed_at, output_url |-> output_url,
     error_message |-> error_message, user_id |-> user_id]

\* get_job_status.  f names the storage calls that succeed in this request
\* (list_out, presign, list_fail, get_obj); outs and fails are the objects
\* of the two listings whose key contains job_id, in listing order.
\* The resolver with "pending" as its default answer.
GetJobStatusPending(job_id, user_id, f, outs, fails) ==
    IF ~HAS_BOTO3
    THEN [kind |-> "InferenceError", cause |-> "no_boto3",
          message |-> StatusMessage("no_boto3")]
    ELSE IF f.list_out /\ outs # << >> /\ f.presign
    THEN JobStatus(job_id, "completed", LastModified(outs[1].key),
                   Some(LastModified(outs[1].key)), Some(PresignedUrl(outs[1].key)),
                   None, user_id)
    ELSE IF f.list_fail /\ fails # << >> /\ f.get_obj
    THEN JobStatus(job_id, "failed", LastModified(fails[1].key),
                   Some(LastModified(fails[1].key)), None,
                   Some(Truncate(fails[1].body)), user_id)
    ELSE JobStatus(job_id, "pending", << "utcnow" >>, None, None, None, user_id)

\* The resolver without its inner try blocks: a storage call that raises
\* reaches the outer except clause and leaves as InferenceAPIError.
GetJobStatusPropagating(job_id, user_id, f, outs, fails) ==
    IF ~HAS_BOTO3
    THEN [kind |-> "InferenceError", cause |-> "no_boto3",
          message |-> StatusMessage("no_boto3")]
    ELSE IF ~f.list_out \/ (outs # << >> /\ ~f.presign)
    THEN [kind |-> "InferenceError", cause |-> "storage",
          message |-> StatusMessage("storage")]
    ELSE IF outs # << >>
    THEN JobStatus(job_id, "completed", LastModified(outs[1].key),
                   Some(LastModified(outs[1].key)), Some(PresignedUrl(outs[1].key)),
                   None, user_id)
    ELSE IF ~f.list_fail \/ (fails # << >> /\ ~f.get_obj)
    THEN [kind |-> "InferenceError", cause |-> "storage",
          message |-> StatusMessage("storage")]
    ELSE IF fails # << >>
    THEN JobStatus(job_id, "failed", LastModified(fails[1].key),
                   Some(LastModified(fails[1].key)), None,
                   Some(Truncate(fails[1].body)), user_id)
    ELSE JobStatus(job_id, "processing", << "utcnow" >>, None, None, None, user_id)

\* The resolver answering from the store only the user the jobs were
\* submitted as; any other user is told the job is processing.
GetJobStatusOwned(job_id, user_id, f, outs, fails) ==
    IF ~HAS_BOTO3
    THEN [kind |-> "InferenceError", cause |-> "no_boto3",
          message |-> StatusMessage("no_boto3")]
    ELSE IF user_id # UserOf(job_id)
    THEN JobStatus(job_id, "processing", << "utcnow" >>, None, None, None, user_id)
    ELSE IF f.list_out /\ outs # << >> /\ f.presign
    THEN JobStatus(job_id, "completed", LastModified(outs[1].key),
                   Some(LastModified(outs[1].key)), Some(PresignedUrl(outs[1].key)),
                   None, user_id)
    ELSE IF f.list_fail /\ fails # << >> /\ f.get_obj
    THEN JobStatus(job_id, "failed", LastModified(fails[1].key),
                   Some(LastModified(fails[1].key)), None,
                   Some(Truncate(fails[1].body)), user_id)
    ELSE JobStatus(job_id, "processing", << "utcnow" >>, None, None, None, user_id)

\* get_job_status, as written: completed is looked for first, then failed.
GetJobStatus(job_id, user_id, f, outs, fails) ==
    IF ~HAS_BOTO3
    THEN [kind |-> "InferenceError", cause |-> "no_boto3",
          message |-> StatusMessage("no_boto3")]
    ELSE IF f.list_out /\ outs # << >> /\ f.presign
    THEN JobStatus(job_id, "completed", LastModified(outs[1].key),
                   Some(LastModified(outs[1].key)), Some(PresignedUrl(outs[1].key)),
                   None, user_id)
    ELSE IF f.list_fail /\ fails # << >> /\ f.get_obj
    THEN JobStatus(job_id, "failed", LastModified(fails[1].key),
                   Some(LastModified(fails[1].key)), None,
                   Some(Truncate(fails[1].body)), user_id)
    ELSE JobStatus(job_id, "processing", << "utcnow" >>, None, None, None, user_id)

Users == {"alice", "bob"}

\* Job ids a client asks about.
JobIds == { << 7 >>, << 7, 8 >>, << 9 >> }

\* Keys the backend writes for jobs: before and after the other jobs' keys.
JobKeys == { << 0, 7 >>, << 2, 7 >>, << 2, 7, 8 >> }

FailureKeys == { << 0, 7 >>, << 2, 7 >> }

\* The keys of other jobs' objects start with this.
OtherKey == << 1 >>

\* Failure object contents: a short text, and one of 501 characters.
ShortText == << Run("e", 3) >>

LongText == << Run("e", 499), Run("f", 2) >>

Bodies == { ShortText, LongText }

NoFault == [list_out |-> TRUE, presign |-> TRUE, list_fail |-> TRUE, get_obj |-> TRUE]

\* Which storage calls fail in one request: none, one of them, or both listings.
Faults == { NoFault,
            [NoFault EXCEPT !.list_out = FALSE],
            [NoFault EXCEPT !.presign = FALSE],
            [NoFault EXCEPT !.list_fail = FALSE],
            [NoFault EXCEPT !.get_obj = FALSE],
            [NoFault EXCEPT !.list_out = FALSE, !.list_fail = FALSE] }

NoStatus == [job_id |-> << >>, user_id |-> "", faults |-> NoFault, out |-> NoResp]

\* The backend writes the output object of a job.
PutOutput(k) ==
    /\ ~HasKey(s3_outputs, k)
    /\ s3_outputs' = Put(s3_outputs, [key |-> k, n |-> 1])
    /\ status_resp' = NoStatus
    /\ UNCHANGED << HAS_BOTO3, submitVars, s3_failures, polled, authVars >>

\* The backend writes the failure object of a job.
PutFailure(k, body) ==
    /\ ~HasKey(s3_failures, k)
    /\ s3_failures' = Put(s3_failures, [key |-> k, n |-> 1, body |-> body])
    /\ status_resp' = NoStatus
    /\ UNCHANGED << HAS_BOTO3, submitVars, s3_outputs, polled, authVars >>

NumOthers(objs) == NumObjects(SelectSeq(objs, LAMBDA o : o.key = OtherKey))

\* Other jobs' objects arrive under a prefix, making n of them in all.
PutOtherOutputs(n) ==
    /\ NumOthers(s3_outputs) < n
    /\ s3_outputs' = Put(s3_outputs, [key |-> OtherKey, n |-> n])
    /\ status_resp' = NoStatus
    /\ UNCHANGED << HAS_BOTO3, submitVars, s3_failures, polled, authVars >>

PutOtherFailures(n) ==
    /\ NumOthers(s3_failures) < n
    /\ s3_failures' = Put(s3_failures, [key |-> OtherKey, n |-> n, body |-> ShortText])
    /\ status_resp' = NoStatus
    /\ UNCHANGED << HAS_BOTO3, submitVars, s3_outputs, polled, authVars >>

\* How far a status is along processing, failed, completed.
Rank(status) ==
    IF status = "completed" THEN 2 ELSE IF status = "failed" THEN 1 ELSE 0

Further(a, b) == IF Rank(b) > Rank(a) THEN b ELSE a

\* GET /auth/status/{job_id}: one request, answered from the store as it is.
GetStatusAs(job_id, user_id, f) ==
    LET outs == Matching(ListObjects(s3_outputs), job_id)
        fails == Matching(ListObjects(s3_failures), job_id)
        out == GetJobStatus(job_id, user_id, f, outs, fails)
    IN /\ status_resp' = [job_id |-> job_id, user_id |-> user_id, faults |-> f,
                           out |-> out]
       /\ polled' = IF f = NoFault /\ out.kind = "JobStatus"
                    THEN [polled EXCEPT ![job_id] = Further(@, out.status)]
                    ELSE polled
       /\ UNCHANGED << HAS_BOTO3, submitVars, s3_outputs, s3_failures >>

GetStatus(job_id) ==
    /\ \E user_id \in Users, f \in Faults : GetStatusAs(job_id, user_id, f)
    /\ UNCHANGED authVars

----------------------------------------------------------------------------
(* Authentication and rate limiting.  Every /auth route but /auth/token    *)
(* declares Depends(get_current_user); TokenAuthenticator and RateLimiter  *)
(* live in src/auth.py and follow the design document.                     *)

\* Bearer tokens issued in one behaviour.
MaxTokens == 2

\* Requests reaching get_current_user in one behaviour.
MaxRequests == 4

\* Last clock reading at which a client asks for a token.
LastIssue == 60

\* create_jwt_token(user_id, expires_in_hours=24)
expires_in_hours == 24

\* "expires_in": 86400 of the token response
expires_in == 86400

\* Requests a user may make in one window, and the window's length, seconds.
RateLimit == 2

RateWindow == 60

\* The signature over a token's claims; only the authenticator can make it.
Sign(user_id, issued_at, expires_at) == << "hs256", user_id, issued_at, expires_at >>

\* authenticator.create_jwt_token at time t.
CreateJwtToken(user_id, hours, t) ==
    [user_id |-> user_id, issued_at |-> t, expires_at |-> t + hours * 3600,
     sig |-> Sign(user_id, t, t + hours * 3600)]

\* What a request carries in its Authorization header.
Missing == [kind |-> "missing"]

Malformed == [kind |-> "malformed"]

Bearer(tok) == [kind |-> "bearer", tok |-> tok]

\* An issued token with its claims edited and its signature left as it was.
Extended(tok) == [tok EXCEPT !.expires_at = @ + expires_in]

Renamed(tok) == [tok EXCEPT !.user_id = "root"]

Credentials ==
    {Missing, Malformed}
        \cup {Bearer(i.access_token) : i \in tokens}
        \cup {Bearer(Extended(i.access_token)) : i \in tokens}
        \cup {Bearer(Renamed(i.access_token)) : i \in tokens}

\* A validator that still takes a token at the instant it expires.
ValidateTokenInclusive(cred, t) ==
    IF cred.kind # "bearer"
    THEN [ok |-> FALSE, user_id |-> ""]
    ELSE IF cred.tok.sig # Sign(cred.tok.user_id, cred.tok.issued_at, cred.tok.expires_at)
    THEN [ok |-> FALSE, user_id |-> ""]
    ELSE IF t > cred.tok.expires_at
    THEN [ok |-> FALSE, user_id |-> ""]
    ELSE [ok |-> TRUE, user_id |-> cred.tok.user_id]

\* validate_token at time t: the identity, or AuthError (ok = FALSE).
ValidateToken(cred, t) ==
    IF cred.kind # "bearer"
    THEN [ok |-> FALSE, user_id |-> ""]
    ELSE IF cred.tok.sig # Sign(cred.tok.user_id, cred.tok.issued_at, cred.tok.expires_at)
    THEN [ok |-> FALSE, user_id |-> ""]
    ELSE IF t >= cred.tok.expires_at
    THEN [ok |-> FALSE, user_id |-> ""]
    ELSE [ok |-> TRUE, user_id |-> cred.tok.user_id]

\* The counter of a user is absent or its window is over at time t.
RLExpired(c, t) == c.count = 0 \/ t >= c.window_start + RateWindow

\* The count a read of the counter returns at time t.
RLCurrent(c, t) == IF RLExpired(c, t) THEN 0 ELSE c.count

\* A read followed by a write of the value read plus one.
RLIncrementStale(c, seen, t) ==
    [window_start |-> IF RLExpired(c, t) THEN t ELSE c.window_start, count |-> seen + 1]

\* The store's increment-and-get at time t; `seen` is the count the
\* counter had when the request reached the limiter, which an atomic
\* increment makes no use of.
RLIncrement(c, seen, t) ==
    IF RLExpired(c, t)
    THEN [window_start |-> t, count |-> 1]
    ELSE [c EXCEPT !.count = @ + 1]

\* The limiter with its comparison off by one.
RLDeniedEarly(count) == count >= RateLimit

\* check_and_increment denies when the post-increment count exceeds the threshold.
RLDenied(count) == count > RateLimit

\* The application without a handler registered for RateLimitError.
ExceptionHandlerUnregistered(exc) ==
    IF exc = "AuthError" THEN "auth_error_handler"
    ELSE IF exc \in {"ValidationError", "InferenceError", "ServiceUnavailableError"}
    THEN "api_error_handler"
    ELSE "general_error_handler"

\* app.add_exception_handler: the handler that answers for an exception.
ExceptionHandler(exc) ==
    IF exc \in {"AuthError", "RateLimitError"} THEN "auth_error_handler"
    ELSE IF exc \in {"ValidationError", "InferenceError", "ServiceUnavailableError"}
    THEN "api_error_handler"
    ELSE "general_error_handler"

\* A field of a request's record goes back to its initial value once the
\* request has no more use for it.
NoAreq == [phase |-> "idle", cred |-> Missing, auth |-> "none",
           limit |-> "none", user |-> "", seen |-> 0, count |-> 0, ordinal |-> 0,
           window |-> 0, effects |-> {}, handler |-> "none"]

NoCounter == [window_start |-> 0, count |-> 0]

NoCalls == [calls |-> 0, allowed |-> 0]

\* A route declared without its dependency: the handler runs for any request.
DependsResolvedAlways(a) == TRUE

\* current_user = Depends(get_current_user): the handler body runs only
\* with the value the dependency returned.
DependsResolved(a) == a.phase = "passed"

\* The endpoint asking for a token of one hour and announcing 86400 s.
TokenResponseOneHour(user_id, t) ==
    [access_token |-> CreateJwtToken(user_id, 1, t),
     token_type |-> "bearer", expires_in |-> expires_in, user_id |-> user_id]

\* The response of POST /auth/token to a request made at time t.
TokenResponse(user_id, t) ==
    [access_token |-> CreateJwtToken(user_id, expires_in_hours, t),
     token_type |-> "bearer", expires_in |-> expires_in, user_id |-> user_id]

\* POST /auth/token; a request without user_id ends with ValidationAPIError.
CreateAuthToken(user_id) ==
    /\ user_id # ""
    /\ Cardinality(tokens) < MaxTokens
    /\ now <= LastIssue
    /\ tokens' = tokens \cup {TokenResponse(user_id, now)}
    /\ UNCHANGED << HAS_BOTO3, submitVars, statusVars, areq, rl, rl_calls, requests >>

\* A request with credential cred reaches get_current_user in slot s:
\* validate_token answers, and a request it accepts goes on to the limiter.
Arrive(s, cred) ==
    /\ areq[s].phase \in {"idle", "done"}
    /\ pc[s] = "idle"
    /\ requests < MaxRequests
    /\ requests' = requests + 1
    /\ LET v == ValidateToken(cred, now)
       IN areq' = [areq EXCEPT ![s] =
              IF v.ok
              THEN [NoAreq EXCEPT !.phase = "limit", !.cred = cred,
                                  !.auth = "ok", !.user = v.user_id,
                                  !.seen = RLCurrent(rl[v.user_id], now)]
              ELSE [NoAreq EXCEPT !.phase = "done", !.cred = cred,
                                  !.auth = "AuthError",
                                  !.handler = ExceptionHandler("AuthError")]]
    /\ UNCHANGED << HAS_BOTO3, submitVars, statusVars, tokens, rl, rl_calls >>

\* check_and_increment, first half: the counter store counts the request.
RLCount(s) ==
    /\ areq[s].phase = "limit"
    /\ LET u == areq[s].user
           c == RLIncrement(rl[u], areq[s].seen, now)
           h == IF RLExpired(rl[u], now)
                THEN [calls |-> 1, allowed |-> 0]
                ELSE [rl_calls[u] EXCEPT !.calls = @ + 1]
       IN /\ rl' = [rl EXCEPT ![u] = c]
          /\ rl_calls' = [rl_calls EXCEPT ![u] = h]
          /\ areq' = [areq EXCEPT ![s] =
                 [NoAreq EXCEPT !.phase = "counted", !.auth = "ok", !.user = u,
                                !.count = c.count, !.ordinal = h.calls,
                                !.window = c.window_start, !.effects = {"incr"}]]
    /\ UNCHANGED << HAS_BOTO3, submitVars, statusVars, tokens, requests >>

\* check_and_increment, second half: the count that came back is compared.
RLDecide(s) ==
    /\ areq[s].phase = "counted"
    /\ LET u == areq[s].user
           denied == RLDenied(areq[s].count)
       IN /\ areq' = [areq EXCEPT ![s] =
                 IF denied
                 THEN [NoAreq EXCEPT !.phase = "done", !.auth = "ok",
                                     !.limit = "RateLimitError", !.effects = {"incr"},
                                     !.handler = ExceptionHandler("RateLimitError")]
                 ELSE [NoAreq EXCEPT !.phase = "passed", !.auth = "ok", !.user = u,
                                     !.limit = "allowed", !.effects = {"incr"}]]
          /\ rl_calls' = IF ~denied /\ areq[s].window = rl[u].window_start
                         THEN [rl_calls EXCEPT ![u].allowed = @ + 1]
                         ELSE rl_calls
    /\ UNCHANGED << HAS_BOTO3, submitVars, statusVars, tokens, rl, requests >>

\* What the handler step just taken did to the store and the backend.
Effects ==
    (IF s3_inputs' # s3_inputs THEN {"write"} ELSE {})
        \cup (IF backend_calls' # backend_calls THEN {"invoke"} ELSE {})

\* POST /auth/generate behind its dependency.
AuthSubmit(s, p, putOk) ==
    /\ DependsResolved(areq[s])
    /\ SubmitAs(s, areq[s].user, p, putOk)
    /\ areq' = [areq EXCEPT ![s].effects = @ \cup Effects,
                            ![s].user = IF pc'[s] = "inflight" THEN @ ELSE "",
                            ![s].phase = IF pc'[s] = "inflight" THEN "inflight" ELSE "done"]
    /\ UNCHANGED << tokens, rl, rl_calls, requests >>

AuthReturns(s, ok) ==
    /\ areq[s].phase = "inflight"
    /\ Returns(s, ok)
    /\ areq' = [areq EXCEPT ![s].phase = "done", ![s].user = ""]
    /\ UNCHANGED << tokens, rl, rl_calls, requests >>

\* GET /auth/status/{job_id} behind its dependency.
AuthGetStatus(s, job_id) ==
    /\ DependsResolved(areq[s])
    /\ pc[s] = "idle"
    /\ GetStatusAs(job_id, areq[s].user, NoFault)
    /\ areq' = [areq EXCEPT ![s].effects = @ \cup (IF HAS_BOTO3 THEN {"read"} ELSE {}),
                            ![s].user = "", ![s].phase = "done"]
    /\ UNCHANGED << tokens, rl, rl_calls, requests >>

\* Instants the clock is read at: the end of a rate window and the expiry
\* of a token issued at 0,
AuthInstants == {RateWindow, expires_in}

\* around the expiry of tokens issued at 0 and at 60,
TokenInstants == {RateWindow, expires_in - 1, expires_in, expires_in + RateWindow}

\* and around the end of a rate window that began at 0.
WindowInstants == {RateWindow - 1, RateWindow}

AuthTick(t) ==
    /\ t > now
    /\ now' = t
    /\ UNCHANGED << HAS_BOTO3, cb, pc, req, resp, next_job, s3_inputs, backend_calls,
                    fail_streak, statusVars, authVars >>

----------------------------------------------------------------------------

\* The process after start-up: no request served yet, an empty store.
InitProcess ==
    /\ now = 0
    /\ cb = CB_Init
    /\ pc = [s \in Slots |-> "idle"]
    /\ req = [s \in Slots |-> NoReq]
    /\ resp = NoResp
    /\ next_job = 0
    /\ s3_inputs = {}
    /\ backend_calls = 0
    /\ fail_streak = 0
    /\ s3_outputs = << >>
    /\ s3_failures = << >>
    /\ status_resp = NoStatus
    /\ polled = [j \in JobIds |-> "none"]
    /\ areq = [s \in Slots |-> NoAreq]
    /\ rl = [u \in Users |-> NoCounter]
    /\ rl_calls = [u \in Users |-> NoCalls]
    /\ requests = 0

Init ==
    /\ HAS_BOTO3 \in BOOLEAN
    /\ tokens = {}
    /\ InitProcess

\* The process with boto3 installed, once every user has asked for a token.
InitLimit ==
    /\ HAS_BOTO3 = TRUE
    /\ tokens = {TokenResponse(u, 0) : u \in Users}
    /\ InitProcess

Next ==
    \/ \E s \in Slots, p \in Prompts, putOk \in BOOLEAN : Submit(s, p, putOk)
    \/ \E s \in Slots, ok \in BOOLEAN : Complete(s, ok)
    \/ \E d \in TickSteps : Tick(d)

Spec == Init /\ [][Next]_vars

OtherCounts == {MaxKeys - 1, MaxOther}

NextStatus ==
    \/ \E k \in JobKeys : PutOutput(k)
    \/ \E k \in FailureKeys, body \in Bodies : PutFailure(k, body)
    \/ \E n \in OtherCounts : PutOtherOutputs(n)
    \/ \E n \in OtherCounts : PutOtherFailures(n)
    \/ \E j \in JobIds : GetStatus(j)

SpecStatus == Init /\ [][NextStatus]_vars

\* Requests with any credential, one at a time, over the life of a token.
NextToken ==
    \/ \E u \in Users : CreateAuthToken(u)
    \/ \E cred \in Credentials : Arrive("r1", cred)
    \/ \E s \in Slots : RLCount(s)
    \/ \E s \in Slots : RLDecide(s)
    \/ \E s \in Slots : AuthGetStatus(s, << 9 >>)
    \/ \E t \in TokenInstants : AuthTick(t)

SpecToken == Init /\ [][NextToken]_vars

\* Requests of users holding a good token, served at the same time.
NextLimit ==
    \/ \E s \in Slots, i \in tokens : Arrive(s, Bearer(i.access_token))
    \/ \E s \in Slots : RLCount(s)
    \/ \E s \in Slots : RLDecide(s)
    \/ \E s \in Slots : AuthGetStatus(s, << 9 >>)
    \/ \E t \in WindowInstants : AuthTick(t)

SpecLimit == InitLimit /\ [][NextLimit]_vars

AuthPrompts == { << Run("a", 1000) >> }

AuthSlots == {"r1", "r2"}

\* Requests of one user through the dependency and both handlers.
NextAuth ==
    \/ CreateAuthToken("alice")
    \/ \E s \in AuthSlots, cred \in Credentials : Arrive(s, cred)
    \/ \E s \in Slots : RLCount(s)
    \/ \E s \in Slots : RLDecide(s)
    \/ \E s \in Slots, p \in AuthPrompts, putOk \in BOOLEAN : AuthSubmit(s, p, putOk)
    \/ \E s \in Slots, ok \in BOOLEAN : AuthReturns(s, ok)
    \/ \E s \in Slots : AuthGetStatus(s, << 9 >>)
    \/ \E t \in AuthInstants : AuthTick(t)

SpecAuth == Init /\ [][NextAuth]_vars

----------------------------------------------------------------------------
(* Properties of POST /auth/generate and the circuit breaker.              *)

Open == cb.state = "open"

CoolingDown == Open /\ now - cb.last_failure_time < reset_timeout

\* Slot s finishes its backend call in this step.
Completes(s) == pc[s] = "inflight" /\ pc'[s] = "idle"

\* Slot s starts a backend call in this step.
Invokes(s) == pc[s] = "idle" /\ pc'[s] = "inflight"

Trials == {s \in Slots : pc[s] = "inflight" /\ req[s].mode = "trial"}

C1_Rejected(p) == PromptLen(Strip(p)) = 0 \/ PromptLen(p) > 1000

\* A request ends in this step without a backend call having been started for it.
EndsEarly == pc' = pc /\ now' = now /\ "prompt" \in DOMAIN resp'

\* The request turned away in this step by the breaker.
TurnedAway == EndsEarly /\ resp'.kind = "InferenceError" /\ resp'.cause = "breaker_open"

\* C1: a submit request whose prompt is empty, blank or longer than 1000
\* characters ends with a validation error, writes nothing under inputs/,
\* does not invoke the backend and leaves the circuit breaker as it was.
C1_ValidationNoSideEffects ==
    [][(EndsEarly /\ C1_Rejected(resp'.prompt))
          => /\ resp'.kind = "ValidationError"
             /\ s3_inputs' = s3_inputs
             /\ backend_calls' = backend_calls
             /\ cb' = cb]_vars

C1_Witness ==
    /\ resp.kind = "ValidationError"
    /\ resp.cause = "too_long"
    /\ s3_inputs # {}
    /\ cb.failure_count > 0

\* C2: from Closed, failure_threshold backend calls failing in a row leave
\* the breaker Open, and while it is Open and reset_timeout has not passed
\* since last_failure_time no request reaches the backend: every one is
\* turned away and the backend's call count stays as it is.
C2_OpensAndFailsFast ==
    [][/\ (fail_streak' >= failure_threshold => cb'.state # "closed")
       /\ (cb.state = "closed" /\ fail_streak' = failure_threshold => cb'.state = "open")
       /\ (CoolingDown => /\ backend_calls' = backend_calls
                          /\ \A s \in Slots : ~Invokes(s))
       /\ (CoolingDown /\ s3_inputs' # s3_inputs => TurnedAway)]_vars

C2_Witness ==
    /\ CoolingDown
    /\ fail_streak = failure_threshold
    /\ backend_calls = failure_threshold
    /\ resp.kind = "InferenceError" /\ resp.cause = "breaker_open"
    /\ now = reset_timeout - 1

C4_TrialDecides ==
    [][/\ \A s \in Slots :
             (Completes(s) /\ req[s].mode = "trial")
                 => IF resp'.kind = "ok"
                    THEN cb'.state = "closed" /\ cb'.failure_count = 0
                    ELSE cb'.state = "open" /\ cb'.last_failure_time = now
       /\ (CoolingDown => cb' = cb)]_vars

C4_Witness ==
    /\ CoolingDown
    /\ cb.last_failure_time = reset_timeout
    /\ now = 2 * reset_timeout - 1
    /\ resp.kind = "InferenceError" /\ resp.cause = "breaker_open"

\* C5: while the breaker is Closed every call reaches the backend, a call
\* that succeeds sets the failure count to zero and one that fails adds
\* exactly one to it; the count of a Closed breaker is below
\* failure_threshold, and the breaker opens only when failure_threshold
\* calls have failed in a row.
C5_ClosedCounts ==
    [][/\ (cb.state = "closed" /\ s3_inputs' # s3_inputs
              => backend_calls' = backend_calls + 1 /\ \E s \in Slots : Invokes(s))
       /\ \A s \in Slots :
             (Completes(s) /\ cb.state = "closed")
                 => IF resp'.kind = "ok"
                    THEN cb'.state = "closed" /\ cb'.failure_count = 0
                    ELSE /\ cb'.failure_count = cb.failure_count + 1
                         /\ (cb'.state = "open" <=> cb'.failure_count >= failure_threshold)
                         /\ cb'.state \in {"closed", "open"}
       /\ (cb'.state = "closed" => cb'.failure_count < failure_threshold)
       /\ (cb.state = "closed" /\ cb'.state # "closed"
              => fail_streak' = failure_threshold)]_vars

C5_Witness ==
    /\ cb.state = "closed"
    /\ cb.failure_count = failure_threshold - 1
    /\ backend_calls = 2 * failure_threshold - 3
    /\ resp.kind = "InferenceError" /\ resp.cause = "backend"

----------------------------------------------------------------------------
(* Properties of GET /auth/status/{job_id}.  status_resp is the answer to  *)
(* the last request, given from the store as it is now.                    *)

Answered == status_resp.out.kind # "none"

\* The objects of a prefix, all of them, whose key contains the job id asked for.
Present(objs) == SelectSeq(objs, LAMBDA o : Contains(status_resp.job_id, o.key))

\* A request that the storage client was made for and no storage call failed in.
Clean == Answered /\ HAS_BOTO3 /\ status_resp.faults = NoFault

\* C7: once an object whose key contains the job id is under the output
\* prefix, get_status reports completed with a non-empty output_url and no
\* error_message, however many other objects the prefix holds.
C7_CompletedWhenOutputPresent ==
    (Clean /\ Present(s3_outputs) # << >>)
        => /\ status_resp.out.status = "completed"
           /\ status_resp.out.output_url # None
           /\ status_resp.out.error_message = None

\* C8: with no matching object under the output prefix and one under the
\* failure prefix, get_status reports failed with no output_url and the
\* first 500 characters of the failure object's content as error_message.
C8_FailedWhenFailurePresent ==
    (Clean /\ Present(s3_outputs) = << >> /\ Present(s3_failures) # << >>)
        => /\ status_resp.out.status = "failed"
           /\ status_resp.out.output_url = None
           /\ status_resp.out.error_message = Some(Prefix(Present(s3_failures)[1].body, 500))
           /\ PromptLen(status_resp.out.error_message[1]) <= 500

\* C9: for a job id that no object of either prefix matches, get_status
\* reports processing with completed_at, output_url and error_message all
\* absent, whichever storage call fails; no request is answered pending,
\* and none with an error unless no storage client can be made at all.
C9_ProcessingWhenNothingMatches ==
    Answered
        => /\ (status_resp.out.kind # "JobStatus"
                  => ~HAS_BOTO3 /\ status_resp.out.cause = "no_boto3")
           /\ (HAS_BOTO3
                  => /\ status_resp.out.kind = "JobStatus"
                     /\ status_resp.out.job_id = status_resp.job_id
                     /\ status_resp.out.status \in {"processing", "completed", "failed"}
                     /\ (Present(s3_outputs) = << >> /\ Present(s3_failures) = << >>
                            => /\ status_resp.out.status = "processing"
                               /\ status_resp.out.completed_at = None
                               /\ status_resp.out.output_url = None
                               /\ status_resp.out.error_message = None))

C9_Witness ==
    /\ Answered /\ HAS_BOTO3
    /\ status_resp.job_id = << 9 >>
    /\ status_resp.out.status = "processing"
    /\ NumObjects(s3_outputs) > MaxKeys
    /\ Len(s3_failures) > 1

\* C10: when an output object and a failure object both have the job id in
\* their keys, get_status reports completed, never failed.
C10_CompletedWins ==
    (Clean /\ Present(s3_outputs) # << >> /\ Present(s3_failures) # << >>)
        => status_resp.out.status = "completed"

\* The objects the first page of a prefix shows for the job id asked for.
Seen(objs) == Matching(ListObjects(objs), status_resp.job_id)

\* A storage call of the output lookup raised in the last request.
HitOutputs ==
    \/ ~status_resp.faults.list_out
    \/ Seen(s3_outputs) # << >> /\ ~status_resp.faults.presign

\* A storage call of the failure lookup raised in the last request.
HitFailures ==
    /\ HitOutputs \/ Seen(s3_outputs) = << >>
    /\ \/ ~status_resp.faults.list_fail
       \/ Seen(s3_failures) # << >> /\ ~status_resp.faults.get_obj

Hit == Answered /\ HAS_BOTO3 /\ (HitOutputs \/ HitFailures)

\* C11 as stated: a get_status request in which a storage call raises
\* (a listing, the download URL, the read of the failure object) is
\* answered with status processing, never with an error.
C11_FaultMeansProcessing ==
    Hit => /\ status_resp.out.kind = "JobStatus"
           /\ status_resp.out.status = "processing"

\* C11 as amended: a storage call that raises is never passed on to the
\* caller and counts as no match for its prefix.  The answer is the one
\* the other prefix gives: failed when the output lookup raised and the
\* failure lookup finds and reads a matching object, processing in every
\* other case; it is never completed and never an error.
C11_FaultMeansNoMatch ==
    Hit => /\ status_resp.out.kind = "JobStatus"
           /\ status_resp.out.output_url = None
           /\ status_resp.out.status =
                  IF HitOutputs /\ ~HitFailures /\ Seen(s3_failures) # << >>
                  THEN "failed" ELSE "processing"

C11_Witness ==
    /\ Hit
    /\ ~status_resp.faults.presign
    /\ Seen(s3_outputs) # << >>
    /\ Seen(s3_failures) = << >>
    /\ status_resp.out.status = "processing"

----------------------------------------------------------------------------
(* Properties of the request dependency: authentication, then the rate     *)
(* limiter, then the handler.                                              *)

\* The request in slot s takes a step.
Moves(s) == areq'[s] # areq[s]

HandlerEffects == {"write", "read", "invoke"}

\* C12: within one request authentication comes first, the rate limiter
\* second and the handler last.  A request refused with AuthError has not
\* touched the rate counter, the store or the backend; one refused with
\* RateLimitError has been counted and has not written to the store or
\* called the backend; the counter is only incremented for an authenticated
\* request, and the store and the backend are only used by a request the
\* limiter has let through.
C12_AuthThenLimitThenHandler ==
    [][/\ \A s \in Slots :
             /\ (Moves(s) /\ areq'[s].auth = "AuthError"
                    => /\ areq'[s].phase = "done" /\ areq'[s].effects = {}
                       /\ rl' = rl /\ s3_inputs' = s3_inputs
                       /\ backend_calls' = backend_calls /\ status_resp' = status_resp)
             /\ (Moves(s) /\ areq'[s].limit = "RateLimitError"
                    => /\ areq'[s].phase = "done" /\ areq'[s].effects = {"incr"}
                       /\ areq[s].auth = "ok"
                       /\ s3_inputs' = s3_inputs /\ backend_calls' = backend_calls)
             /\ (areq'[s].effects \cap HandlerEffects # {}
                    => /\ areq'[s].auth = "ok" /\ areq'[s].limit = "allowed"
                       /\ "incr" \in areq'[s].effects)
       /\ (rl' # rl
              => \E s \in Slots : /\ areq[s].phase = "limit" /\ areq[s].auth = "ok"
                                  /\ areq'[s].phase = "counted")
       /\ (s3_inputs' # s3_inputs \/ backend_calls' # backend_calls
                                  \/ status_resp' # status_resp
              => \E s \in Slots : /\ areq[s].phase = "passed" /\ areq[s].limit = "allowed"
                                  /\ "incr" \in areq[s].effects
                                  /\ areq'[s].phase \in {"inflight", "done"})]_vars

\* One request refused for its expired token, one refused by the limiter,
\* and one that the handler wrote and called the backend for.
C12_Witness ==
    /\ \E i \in tokens : /\ areq["r1"].cred = Bearer(i.access_token)
                         /\ areq["r1"].auth = "AuthError"
    /\ areq["r2"].limit = "RateLimitError"
    /\ s3_inputs # {}
    /\ backend_calls > 0
    /\ requests = RateLimit + 2

----------------------------------------------------------------------------
(* Further properties of POST /auth/generate.                              *)

\* What makes a request end for want of a dependency.
Unavailable == {"no_boto3", "put_object", "breaker_open"}

\* C13: a submit request that finds no storage client, whose put_object
\* fails, or that the open breaker turns away, ends with
\* ServiceUnavailableError, and the backend is not invoked for it.
C13_ServiceUnavailable ==
    [][(EndsEarly /\ resp'.cause \in Unavailable)
          => /\ resp'.kind = "ServiceUnavailableError"
             /\ backend_calls' = backend_calls]_vars

----------------------------------------------------------------------------
(* Properties of the rate limiter.                                         *)

\* The store counts the request of slot s in this step.
Counts(s) == areq[s].phase = "limit" /\ areq'[s].phase = "counted"

\* The limiter answers the request of slot s in this step.
Decides(s) == areq[s].phase = "counted" /\ areq'[s].phase # "counted"

\* C14: with threshold RateLimit, a user's call is allowed exactly when it
\* is among the first RateLimit calls of its window; every later call of
\* that window is denied with RateLimitError, which the handler registered
\* for it answers.  The first call after the window has ended is counted
\* as 1 and allowed whatever the count had come to, and a call of one user
\* leaves every other user's counter as it was.
C14_WindowThreshold ==
    [][\A s \in Slots :
          /\ (Decides(s)
                 => /\ areq'[s].limit = "allowed" <=> areq[s].ordinal <= RateLimit
                    /\ areq'[s].limit = "RateLimitError" <=> areq[s].ordinal > RateLimit
                    /\ (areq'[s].limit = "RateLimitError"
                           => areq'[s].handler = "auth_error_handler")
                    /\ (areq[s].count = 1 => areq'[s].limit = "allowed"))
          /\ (Counts(s)
                 => /\ (rl[areq[s].user].count > 0
                          /\ now - rl[areq[s].user].window_start >= RateWindow
                            => areq'[s].count = 1 /\ areq'[s].ordinal = 1)
                    /\ (rl[areq[s].user].count > 0
                          /\ now - rl[areq[s].user].window_start < RateWindow
                            => areq'[s].ordinal = rl_calls[areq[s].user].calls + 1)
                    /\ \A v \in Users \ {areq[s].user} :
                          rl'[v] = rl[v] /\ rl_calls'[v] = rl_calls[v])]_vars

\* The third call of a window denied with the counter at 3, then the
\* first call of the next window allowed, the other user never seen.
C14_Witness ==
    /\ now = RateWindow
    /\ rl["alice"] = [window_start |-> RateWindow, count |-> 1]
    /\ rl["bob"] = NoCounter
    /\ requests = RateLimit + 2
    /\ \E s \in Slots : areq[s].limit = "RateLimitError"
    /\ \E s \in Slots : areq[s].phase = "passed" /\ areq[s].user = "alice"

\* The requests of user u counted in the current window and not yet answered.
Pending(u) ==
    {s \in Slots : /\ areq[s].phase = "counted" /\ areq[s].user = u
                   /\ areq[s].window = rl[u].window_start}

Min(a, b) == IF a <= b THEN a ELSE b

\* C15: however the check_and_increment calls of one user interleave, no
\* two calls of a window are handed the same count, the counter is the
\* number of calls made, at most RateLimit of them are allowed, and once
\* every call has been answered the number allowed is the smaller of
\* RateLimit and the number of calls.
C15_AtMostThreshold ==
    \A u \in Users :
        /\ rl_calls[u].allowed <= RateLimit
        /\ rl[u].count = rl_calls[u].calls
        /\ \A s \in Pending(u), t \in Pending(u) :
               s # t => areq[s].count # areq[t].count
        /\ \A s \in Pending(u) : areq[s].count = areq[s].ordinal
        /\ (Pending(u) = {}
               => rl_calls[u].allowed = Min(RateLimit, rl_calls[u].calls))

\* Three calls of one user under way at once: the third already denied
\* while the first two, counted before it, have yet to be answered.
C15_Witness ==
    /\ rl_calls["alice"] = [calls |-> RateLimit + 1, allowed |-> 0]
    /\ Cardinality(Pending("alice")) = RateLimit
    /\ \E s \in Slots : areq[s].limit = "RateLimitError"

----------------------------------------------------------------------------
(* Properties of the token authenticator.                                  *)

\* A request reaches get_current_user in slot s in this step.
Arrives(s) == requests' = requests + 1 /\ Moves(s)

\* Token response i is still within the life it announced at time t.
Alive(i, t) == t < i.access_token.issued_at + i.expires_in

\* C16: a token issued by POST /auth/token at t0 and presented as issued is
\* accepted, with the user it was issued to, at every time from t0 up to
\* but not including t0 + expires_in, and refused with AuthError from
\* t0 + expires_in on; once refused it is refused at every later time.
C16_ValidUntilExpiry ==
    [][/\ \A s \in Slots, i \in tokens :
             (Arrives(s) /\ areq'[s].cred = Bearer(i.access_token))
                 => /\ now >= i.access_token.issued_at
                    /\ areq'[s].auth = "ok" <=> Alive(i, now)
                    /\ areq'[s].auth = "AuthError" <=> ~Alive(i, now)
                    /\ (areq'[s].auth = "ok" => areq'[s].user = i.user_id)
       /\ \A i \in tokens :
             /\ ValidateToken(Bearer(i.access_token), now').ok <=> Alive(i, now')
             /\ (~ValidateToken(Bearer(i.access_token), now).ok
                    => ~ValidateToken(Bearer(i.access_token), now').ok)]_vars

\* A token issued at 60 refused at 60 + 86400, the first instant past its
\* life, after a request of the same user had been served.
C16_Witness ==
    \E i \in tokens :
        /\ i.access_token.issued_at = RateWindow
        /\ now = RateWindow + expires_in
        /\ areq["r1"].cred = Bearer(i.access_token)
        /\ areq["r1"].auth = "AuthError"
        /\ status_resp.user_id = i.user_id

Blank(p) == PromptLen(Strip(p)) = 0

\* Prompts of 1, 999, 1000, 1001 and 1002 characters, and one of 1000
\* characters that begins with spaces.
BoundaryPrompts ==
    { << Run("a", n) >> : n \in {1, 999, 1000, 1001, 1002} }
        \cup { << Run(" ", 2), Run("a", 998) >> }

\* C17: the length check is exact.  A non-blank prompt passes validation
\* exactly when it has at most 1000 characters: a request with 1000
\* characters goes on to the upload and the backend call, or ends for want
\* of a dependency, and one with 1001 ends with a validation error.
C17_LengthBoundary ==
    /\ \A s \in Slots :
          pc[s] = "inflight" => /\ ~Blank(req[s].prompt)
                                /\ PromptLen(req[s].prompt) <= 1000
                                /\ req[s].key \in s3_inputs
    /\ ("prompt" \in DOMAIN resp /\ ~Blank(resp.prompt)
           => /\ resp.kind = "ValidationError" <=> PromptLen(resp.prompt) > 1000
              /\ resp.kind # "ValidationError" <=> resp.cause \in Unavailable)
    /\ \A p \in BoundaryPrompts :
          /\ SubmitPath(p, TRUE, TRUE, TRUE).end = "invoke" <=> PromptLen(p) <= 1000
          /\ SubmitPath(p, TRUE, TRUE, TRUE).end = "ValidationError"
                 <=> PromptLen(p) > 1000

\* A request of 1000 characters waiting for the backend and one of 1001
\* characters just refused.
C17_Witness ==
    /\ \E s \in Slots : pc[s] = "inflight" /\ PromptLen(req[s].prompt) = 1000
    /\ resp.kind = "ValidationError"
    /\ resp.cause = "too_long"
    /\ PromptLen(resp.prompt) = 1001

\* A message is made of handler text only.
Generic(message) == \A k \in 1 .. Len(message) : message[k].from = "literal"

\* C18: whatever fails, the message sent to the client is a fixed text of
\* the handler and holds no text of the exception that was caught.
C18_GenericMessages ==
    /\ ("message" \in DOMAIN resp => Generic(resp.message))
    /\ ("message" \in DOMAIN status_resp.out => Generic(status_resp.out.message))

\* C19: the input record is written to inputs/{user_id}/{job_id}.json before
\* the backend is invoked; the backend is invoked only after that write
\* has succeeded and is given the location of that object; a request that
\* returns a descriptor has written once and invoked the backend once, and
\* the descriptor's job_id and status_url name the job of the written key.
C19_WriteThenInvoke ==
    [][/\ \A s \in Slots :
             /\ (Invokes(s)
                    => /\ req'[s].key = InputKey(req'[s].user, req'[s].job_id)
                       /\ req'[s].key \notin s3_inputs
                       /\ s3_inputs' = s3_inputs \cup {req'[s].key}
                       /\ backend_calls' = backend_calls + 1)
             /\ (Completes(s)
                    => /\ s3_inputs' = s3_inputs
                       /\ backend_calls' = backend_calls
                       /\ req[s].key \in s3_inputs
                       /\ (resp'.kind = "ok"
                              => /\ resp'.job_id = req[s].job_id
                                 /\ resp'.user_id = req[s].user
                                 /\ resp'.status_url = << "auth", "status", req[s].job_id >>
                                 /\ InputKey(resp'.user_id, resp'.job_id) = req[s].key))
       /\ (backend_calls' # backend_calls => \E s \in Slots : Invokes(s))
       /\ backend_calls' <= Cardinality(s3_inputs')]_vars

\* A descriptor returned for a written object, after at least one request
\* had written its input and been turned away by the breaker.
C19_Witness ==
    /\ resp.kind = "ok"
    /\ InputKey(resp.user_id, resp.job_id) \in s3_inputs
    /\ resp.status_url = << "auth", "status", resp.job_id >>
    /\ backend_calls >= 1
    /\ Cardinality(s3_inputs) > backend_calls

----------------------------------------------------------------------------
(* Polling a job while objects are only ever added to the store.           *)

\* C20: over any sequence of polls met by no storage error, once a job has
\* been reported completed it is reported completed by every later poll,
\* and once it has been reported failed it is never again reported
\* processing.
C20_MonotoneStatus ==
    Clean => Rank(status_resp.out.status) >= Rank(polled[status_resp.job_id])

----------------------------------------------------------------------------
(* The same request made by another user.                                  *)

\* What get_job_status answers user_id for the job last asked about, from
\* the store as it is and with the same storage calls failing.  Every store
\* write clears status_resp, so an answer on record is about this store.
Asked(user_id) ==
    GetJobStatus(status_resp.job_id, user_id, status_resp.faults,
                 Seen(s3_outputs), Seen(s3_failures))

\* Two answers that differ at most in the echoed user_id.  created_at of a
\* processing answer is the time of the request and is not compared.
SameOutcome(a, b) ==
    /\ a.kind = b.kind
    /\ (a.kind # "JobStatus" => a = b)
    /\ (a.kind = "JobStatus"
           => /\ a.job_id = b.job_id
              /\ a.status = b.status
              /\ a.output_url = b.output_url
              /\ a.error_message = b.error_message
              /\ a.completed_at = b.completed_at
              /\ (a.status # "processing" => a.created_at = b.created_at))

\* C21: the outcome of get_status depends only on the job_id and the store
\* contents, not on who asks: any other user asking about the same job
\* against the same store gets the same status, output_url and
\* error_message, and the two answers differ only in the user_id each
\* echoes, which is the asking user's.
C21_SameForEveryUser ==
    Answered
        => /\ status_resp.out = Asked(status_resp.user_id)
           /\ \A u \in Users :
                  /\ SameOutcome(status_resp.out, Asked(u))
                  /\ (Asked(u).kind = "JobStatus" => Asked(u).user_id = u)

\* bob, who submitted nothing, is given the truncated failure text of a job
\* and alice would be given the same.
C21_Witness ==
    /\ Clean
    /\ status_resp.user_id = "bob"
    /\ status_resp.out.status = "failed"
    /\ status_resp.out.error_message = Some(Truncate(LongText))
    /\ Asked("alice").status = "failed"
    /\ Asked("alice").user_id = "alice"

====
